---- MODULE Spec2Model ----
(***************************************************************************)
(* Model of the Salesforce account enrichment application (src/app.py).    *)
(*                                                                         *)
(* The application is a Streamlit script: every operator interaction       *)
(* re-executes the whole script against st.session_state.  One action of   *)
(* this model is one such interaction followed by the complete script run  *)
(* it triggers (and, where the script calls st.rerun(), the immediate      *)
(* second run as well).  The model starts after a successful "Connect".    *)
(*                                                                         *)
(* Representation choices:                                                 *)
(*  - a JSON / CRM scalar is a record [k, s, n]: k is "none" (Python None, *)
(*    JSON null, missing key), "str" (value in s) or "int" (value in n);   *)
(*  - a dotted path string is the sequence of its tokens between dots, so  *)
(*    "people.ceo.fullName" is <<"people", "ceo", "fullName">>;            *)
(*  - a year key of the financials map is the sequence of its digits;      *)
(*  - the selection key f"{account_id}_{sf_field}" is the pair             *)
(*    <<account_id, sf_field>> (Salesforce ids contain no underscore, so   *)
(*    the formatted key determines the pair).                              *)
(***************************************************************************)
EXTENDS Integers, Sequences, FiniteSets, TLC

\* -------------------------------------------------------------------------
\* Scalars
\* -------------------------------------------------------------------------
None == [k |-> "none", s |-> "", n |-> 0]

Str(x) == [k |-> "str", s |-> x, n |-> 0]

Num(i) == [k |-> "int", s |-> "", n |-> i]

\* Python truthiness of a scalar: None, "" and 0 are falsy.
Truthy(v) == \/ v.k = "str" /\ v.s # ""
             \/ v.k = "int" /\ v.n # 0

\* A blank CRM value: null or the empty string.
IsBlank(v) == v.k = "none" \/ (v.k = "str" /\ v.s = "")

\* dict.get(key, "") on the mapping dict (paths); <<>> stands for "".
Get2(d, key) == IF key \in DOMAIN d THEN d[key] ELSE <<>>

\* dict.get(key) on a dict of scalars.
Get(d, key) == IF key \in DOMAIN d THEN d[key] ELSE None

\* -------------------------------------------------------------------------
\* Bounds of the model
\* -------------------------------------------------------------------------
\* Number of operator configuration edits (field check boxes, mapping
\* selectors) explored in one behaviour.
MaxConfigEdits == 1

\* Number of enrichment sessions started in one behaviour.
MaxSessions == 2

\* Number of "Apply Enrichment" passes explored in one behaviour.
MaxApplies == 1

\* Number of choices in the boxes of the mapping rows explored in one
\* behaviour of the mapping interface.
MaxMappingEdits == 2

\* -------------------------------------------------------------------------
\* The CRM: accounts in query order, and the Account fields describe() lists
\* -------------------------------------------------------------------------
AccountIds == <<"001A", "001B">>

AvailableFields == {"Name", "Phone", "Yhteyshenkilo__c"}

InitCrm ==
    [a \in {"001A", "001B"} |->
        IF a = "001A"
        THEN [Name |-> Str("Acme"), Phone |-> None, Yhteyshenkilo__c |-> None,
              VatNumber__c |-> Str("FI123")]
        ELSE [Name |-> Str("Beta"), Phone |-> Str("040"), Yhteyshenkilo__c |-> None,
              VatNumber__c |-> Str("FI456")]]

\* initialize_credentials: the default selected_fields.
default_fields ==
    {"Name", "Phone", "Yhteyshenkilo__c", "Employee_Count__c", "AnnualRevenue",
     "NumberOfEmployees", "Industry", "Kasvuluokka__c", "Website", "Email__c",
     "Account_Marketing_Name__c"}

\* initialize_credentials: the default field_mappings.
default_mappings ==
    [Name |-> <<"basic", "name">>,
     Phone |-> <<"basic", "phoneNumber">>,
     Yhteyshenkilo__c |-> <<"people", "ceo", "fullName">>,
     Employee_Count__c |-> <<"basic", "staffCategory">>,
     AnnualRevenue |-> <<"financials", "latest", "turnover">>,
     NumberOfEmployees |-> <<"people", "count">>,
     Industry |-> <<"basic", "industry">>,
     Kasvuluokka__c |-> <<"basic", "growthClass">>,
     Website |-> <<"basic", "www">>,
     Email__c |-> <<"basic", "email">>,
     Account_Marketing_Name__c |-> <<"basic", "marketingName">>]

\* get_profinder_fields: the catalog path the explored mapping edits choose
\* ('people': 'ceo.title'); the default mappings cover the other categories.
CatalogPaths == {<<"people", "ceo", "title">>}

\* -------------------------------------------------------------------------
\* The provider: what one GET of fetch_profinder_data can produce
\* -------------------------------------------------------------------------
\* fetch_profinder_data returning None (network failure, HTTP error status).
FetchError == [error |-> TRUE]

Ann == [fullName |-> "Ann", title |-> "CFO"]

Bob == [fullName |-> "Bob", title |-> "Toimitusjohtaja"]

Cid == [fullName |-> "Cid", title |-> "Partner"]

\* A company with an explicit blank name, a phone number and a managing
\* director listed last.
DocCeo ==
    [success |-> TRUE,
     basic |-> [name |-> Str(""), phoneNumber |-> Str("+358401234567")],
     people |-> <<Ann, Bob>>]

\* A company without a managing director among its people.
DocNoCeo ==
    [success |-> TRUE,
     basic |-> [name |-> Str("Acme Oy")],
     people |-> <<Ann, Cid>>,
     financials |-> (<<9, 9, 9>> :> [turnover |-> Num(1)]) @@
                    (<<1, 0, 0, 0>> :> [turnover |-> Num(2)]),
     offices |-> <<[city |-> Str("Oulu")]>>]

\* A company with no people and no basic data at all.
DocEmpty == [success |-> TRUE, people |-> <<>>]

\* A body with success: false.
DocRefused == [success |-> FALSE]

FetchResults == {FetchError, DocRefused, DocCeo, DocNoCeo, DocEmpty}

\* -------------------------------------------------------------------------
\* Paths (strings split at dots)
\* -------------------------------------------------------------------------
\* len(profinder_path.split('.', 1)) == 2: the path contains a dot.
HasDot(path) == Len(path) >= 2

\* field_path.startswith(tok + '.')
StartsWith(field_path, tok) == Len(field_path) >= 2 /\ field_path[1] = tok

\* The test of both passes of enrich_data for a field needing a person.
IsCeoPath(path) ==
    /\ HasDot(path)
    /\ path[1] = "people"
    /\ StartsWith(Tail(path), "ceo")

\* str.lower() on the titles the provider documents of this model carry.
Lower(s) ==
    CASE s = "Toimitusjohtaja" -> "toimitusjohtaja"
      [] s = "TOIMITUSJOHTAJA" -> "toimitusjohtaja"
      [] s = "CFO" -> "cfo"
      [] s = "Partner" -> "partner"
      [] OTHER -> s

\* -------------------------------------------------------------------------
\* Value resolution (enrich_data, apply pass)
\* -------------------------------------------------------------------------
\* data.get('people', [])
PeopleOf(data) == IF "people" \in DOMAIN data THEN data.people ELSE <<>>

\* data.get('basic', {})
BasicOf(data) == IF "basic" \in DOMAIN data THEN data.basic ELSE [x \in {} |-> None]

\* int(year_key)
RECURSIVE YearToInt(_)
YearToInt(digits) ==
    IF digits = <<>> THEN 0
    ELSE 10 * YearToInt(SubSeq(digits, 1, Len(digits) - 1)) + digits[Len(digits)]

\* A mutation of LatestYear: max(keys) without key=int, the greatest key in
\* string order (digit by digit, a proper prefix first).
LatestYearAsString(financials) ==
    LET Before(z, y) ==
            \/ Len(z) < Len(y) /\ SubSeq(y, 1, Len(z)) = z
            \/ \E i \in 1..Len(z) :
                    /\ i <= Len(y)
                    /\ SubSeq(z, 1, i - 1) = SubSeq(y, 1, i - 1)
                    /\ z[i] < y[i]
    IN  CHOOSE y \in DOMAIN financials :
            \A z \in DOMAIN financials \ {y} : Before(z, y)

\* max(data['financials'].keys(), key=int)
LatestYear(financials) ==
    CHOOSE y \in DOMAIN financials :
        \A z \in DOMAIN financials : YearToInt(z) <= YearToInt(y)

\* selected_person.get(ceo_field): a person document holds strings.
PersonGet(person, key) == IF key \in DOMAIN person THEN Str(person[key]) ELSE None

\* The value computed for one mapped field (None is "no value"); key is the
\* selection key of (account_id, sf_field).
ResolveValue(data, path, key, selected) ==
    LET category == path[1]
        field_path == Tail(path)
    IN  CASE category = "people" ->
                IF field_path = <<"count">>
                THEN Num(Len(PeopleOf(data)))
                ELSE IF StartsWith(field_path, "ceo")
                THEN IF key \in DOMAIN selected
                     THEN PersonGet(selected[key], field_path[2])
                     ELSE None
                ELSE None
          [] category = "basic" ->
                IF Len(field_path) = 1
                THEN Get(BasicOf(data), field_path[1])
                ELSE None
          [] category = "financials" /\ StartsWith(field_path, "latest") ->
                IF "financials" \in DOMAIN data /\ DOMAIN data.financials # {}
                THEN Get(data.financials[LatestYear(data.financials)], field_path[2])
                ELSE None
          [] category = "offices" /\ StartsWith(field_path, "first") ->
                IF "offices" \in DOMAIN data /\ Len(data.offices) > 0
                THEN Get(data.offices[1], field_path[2])
                ELSE None
          [] category = "eAddresses" /\ StartsWith(field_path, "first") ->
                IF "eAddresses" \in DOMAIN data /\ Len(data.eAddresses) > 0
                THEN Get(data.eAddresses[1], field_path[2])
                ELSE None
          [] OTHER -> None

\* The destination fields the apply pass resolves: mapped, in selected_fields,
\* with a path that splits in two.
EligibleFields(mappings, fields) ==
    {f \in DOMAIN mappings : f \in fields /\ HasDot(mappings[f])}

\* A mutation of PayloadKeys: keeps a field on truthiness instead of "is not None".
PayloadKeysTruthy(account_id, data, mappings, fields, selected) ==
    {f \in EligibleFields(mappings, fields) :
        Truthy(ResolveValue(data, mappings[f], <<account_id, f>>, selected))}

\* A mutation of PayloadKeys: keeps a field whatever was resolved for it.
PayloadKeysWithNone(account_id, data, mappings, fields, selected) ==
    EligibleFields(mappings, fields)

\* A mutation of PayloadKeys: resolves every mapped field, selected or not.
PayloadKeysAllMapped(account_id, data, mappings, fields, selected) ==
    {f \in DOMAIN mappings :
        /\ HasDot(mappings[f])
        /\ ResolveValue(data, mappings[f], <<account_id, f>>, selected) # None}

\* The keys of update_data: "if value is not None".
PayloadKeys(account_id, data, mappings, fields, selected) ==
    {f \in EligibleFields(mappings, fields) :
        ResolveValue(data, mappings[f], <<account_id, f>>, selected) # None}

\* update_data of one account.
BuildPayload(account_id, data, mappings, fields, selected) ==
    [f \in PayloadKeys(account_id, data, mappings, fields, selected) |->
        ResolveValue(data, mappings[f], <<account_id, f>>, selected)]

\* -------------------------------------------------------------------------
\* Missing-data selector (fetch_accounts_with_missing_data)
\* -------------------------------------------------------------------------
\* Missing Fields of one account: the selected fields whose value is falsy.
MissingFields(account, fields) == {f \in fields : ~Truthy(Get(account, f))}

\* The loop over accounts['records']: the query returns the accounts with a
\* VAT number, and those with a missing field are listed.
MissingFrom(crmv, fields) ==
    LET Listed(id) == /\ crmv[id].VatNumber__c # None
                      /\ MissingFields(crmv[id], fields) # {}
        listed == SelectSeq(AccountIds, Listed)
    IN  [i \in 1..Len(listed) |->
            [Id |-> listed[i], Name |-> crmv[listed[i]].Name,
             VatNumber__c |-> crmv[listed[i]].VatNumber__c,
             Missing |-> MissingFields(crmv[listed[i]], fields)]]

fetch_accounts_with_missing_data(crmv, fields) ==
    IF fields = {} THEN <<>> ELSE MissingFrom(crmv, fields)

\* -------------------------------------------------------------------------
\* Person disambiguation (show_person_selector)
\* -------------------------------------------------------------------------
\* Index of the first TRUE of a sequence of booleans, 0 when there is none
\* (Python's next(... for p in seq if ...) and list.index).
FirstIndex(flags) ==
    IF \E i \in 1..Len(flags) : flags[i]
    THEN CHOOSE i \in 1..Len(flags) : flags[i] /\ \A j \in 1..(i - 1) : ~flags[j]
    ELSE 0

\* A mutation of CeoIndex: compares the title as written, without lower().
CeoIndexCaseSensitive(people_data) ==
    FirstIndex([i \in 1..Len(people_data) |-> people_data[i].title = "toimitusjohtaja"])

\* ceo = next((p for p in people_data if p['title'].lower() == 'toimitusjohtaja'), None)
CeoIndex(people_data) ==
    FirstIndex([i \in 1..Len(people_data) |->
                    Lower(people_data[i].title) = "toimitusjohtaja"])

\* people_names.index(name), and next(p for p in people_data if p['fullName'] == name)
NameIndex(people_data, name) ==
    FirstIndex([i \in 1..Len(people_data) |-> people_data[i].fullName = name])

\* No operator choice arrives with this script run.
NoPick == [key |-> <<"", "">>, index |-> 0]

NoPerson == [fullName |-> "", title |-> ""]

\* A mutation of SelectedIndex: one choice per account, shared by its fields.
SelectedIndexPerRecord(people_data, selection_key, selected, pick) ==
    IF Len(people_data) = 0 THEN 0
    ELSE IF pick.key[1] = selection_key[1] /\ pick.index \in 1..Len(people_data)
    THEN pick.index
    ELSE IF selection_key \in DOMAIN selected
            /\ NameIndex(people_data, selected[selection_key].fullName) # 0
    THEN NameIndex(people_data, selected[selection_key].fullName)
    ELSE 1

\* The option the "Select person" box of selection_key holds in this run:
\* the operator's choice when the run was triggered by one, otherwise the
\* option at default_index (the stored selection's name, else the first).
\* 0 stands for None, the value of a select box without options.
SelectedIndex(people_data, selection_key, selected, pick) ==
    LET current_name ==
            IF selection_key \in DOMAIN selected
            THEN selected[selection_key].fullName ELSE ""
        found == IF selection_key \in DOMAIN selected
                 THEN NameIndex(people_data, current_name) ELSE 0
        default_index == IF found # 0 THEN found ELSE 1
    IN  IF Len(people_data) = 0 THEN 0
        ELSE IF pick.key = selection_key /\ pick.index \in 1..Len(people_data)
        THEN pick.index
        ELSE default_index

\* A mutation of show_person_selector: without a managing director, the
\* selection counts only once the operator has chosen in the select box.
show_person_selector_awaiting_choice(people_data, selection_key, selected, pick) ==
    IF CeoIndex(people_data) # 0
    THEN [made |-> TRUE, person |-> people_data[CeoIndex(people_data)]]
    ELSE IF pick.key = selection_key /\ pick.index \in 1..Len(people_data)
    THEN [made |-> TRUE, person |-> people_data[pick.index]]
    ELSE IF selection_key \in DOMAIN selected
    THEN [made |-> TRUE, person |-> selected[selection_key]]
    ELSE [made |-> FALSE, person |-> NoPerson]

\* show_person_selector: made is its return value, person what it stores in
\* selected_people[selection_key] when made.
show_person_selector(people_data, selection_key, selected, pick) ==
    LET ceo == CeoIndex(people_data)
        idx == SelectedIndex(people_data, selection_key, selected, pick)
        selected_name == IF idx = 0 THEN "" ELSE people_data[idx].fullName
    IN  IF ceo # 0
        THEN [made |-> TRUE, person |-> people_data[ceo]]
        ELSE IF selected_name # ""
        THEN [made |-> TRUE,
              person |-> people_data[NameIndex(people_data, selected_name)]]
        ELSE [made |-> FALSE, person |-> NoPerson]

\* -------------------------------------------------------------------------
\* enrich_data
\* -------------------------------------------------------------------------
Range(seq) == {seq[i] : i \in 1..Len(seq)}

EmptyMap == [x \in {} |-> None]

\* "not data or not data.get('success')" is false: the fetch succeeded.
FetchOk(data) == "success" \in DOMAIN data /\ data.success

\* The mapped, selected fields that need a person (disambiguation pass).
CeoFields(mappings, fields) ==
    {f \in DOMAIN mappings : f \in fields /\ IsCeoPath(mappings[f])}

\* A mutation of ApplyGate: offers the button whatever the selectors returned.
ApplyGateIgnoringSelections(person_selection_needed, all_selections_complete, show) ==
    (~person_selection_needed) \/ (person_selection_needed /\ show)

\* The condition under which the "Apply Enrichment" button is rendered.
ApplyGate(person_selection_needed, all_selections_complete, show) ==
    \/ ~person_selection_needed
    \/ person_selection_needed /\ all_selections_complete /\ show

\* A mutation of ApplyList: the apply loop stops at the first rejected write
\* (writing are the accounts with a non-empty payload).
ApplyListAbortOnReject(accounts, cache, rejected, writing) ==
    LET stop == FirstIndex([i \in 1..Len(accounts) |->
                    /\ accounts[i] \in DOMAIN cache
                    /\ accounts[i] \in writing
                    /\ accounts[i] \in rejected])
        InCache(a) == a \in DOMAIN cache
    IN  SelectSeq(IF stop = 0 THEN accounts ELSE SubSeq(accounts, 1, stop), InCache)

\* The accounts the apply loop processes, in order: those of
\* selected_accounts that have an entry in person_selection_state; neither a
\* rejected write nor an empty payload ends the loop.
ApplyList(accounts, cache, rejected, writing) ==
    LET InCache(a) == a \in DOMAIN cache
    IN  SelectSeq(accounts, InCache)

\* A mutation of ResetAfterApply: resets only when no write was rejected.
ResetAfterApplyOnSuccess(st, anyRejected) ==
    IF anyRejected THEN st
    ELSE [st EXCEPT !.enrichment_started = "False",
                    !.person_selection_state = EmptyMap,
                    !.selected_people = EmptyMap,
                    !.show_apply_button = FALSE,
                    !.selected_accounts = <<>>]

\* "Reset state after successful update": runs after the apply loop.
ResetAfterApply(st, anyRejected) ==
    [st EXCEPT !.enrichment_started = "False",
               !.person_selection_state = EmptyMap,
               !.selected_people = EmptyMap,
               !.show_apply_button = FALSE,
               !.selected_accounts = <<>>]

\* The head of enrich_data: the first call ever empties person_selection_state,
\* and a call with enrichment_started false adopts account_ids.
SessionCache(st) ==
    IF st.enrichment_started = "unset" THEN EmptyMap ELSE st.person_selection_state

SessionAccounts(st, account_ids) ==
    IF st.enrichment_started \in {"unset", "False"}
    THEN account_ids ELSE st.selected_accounts

\* The accounts for which this call issues a GET: those with a VAT number
\* and no entry in person_selection_state.
FetchSet(st, account_ids, crmv) ==
    {a \in Range(SessionAccounts(st, account_ids)) :
        Truthy(crmv[a].VatNumber__c) /\ a \notin DOMAIN SessionCache(st)}

\* The fetch pass: accounts is selected_accounts as the passes iterate it,
\* fetched the accounts a GET is issued for, failed those whose GET gave no
\* usable document (not cached), cache the new person_selection_state and
\* logs one entry for each account the loop leaves with "continue".
fetch_pass(st, account_ids, crmv, fetched) ==
    LET cache0 == SessionCache(st)
        accounts == SessionAccounts(st, account_ids)
        to_fetch == FetchSet(st, account_ids, crmv)
        stored == {a \in to_fetch : FetchOk(fetched[a])}
        Skipped(a) == ~Truthy(crmv[a].VatNumber__c) \/ a \in to_fetch \ stored
        skipped == SelectSeq(accounts, Skipped)
    IN  [accounts |-> accounts,
         fetched |-> to_fetch,
         failed |-> to_fetch \ stored,
         cache |-> [a \in DOMAIN cache0 \cup stored |->
                      IF a \in DOMAIN cache0 THEN cache0[a]
                      ELSE [people_data |-> PeopleOf(fetched[a]), data |-> fetched[a]]],
         logs |-> [i \in 1..Len(skipped) |->
                      [event |-> IF ~Truthy(crmv[skipped[i]].VatNumber__c)
                                 THEN "no_vat" ELSE "fetch_failed",
                       id |-> skipped[i]]]]

\* The selection keys the disambiguation pass calls show_person_selector for.
AskedKeys(accounts, crmv, cache, mappings, fields) ==
    {k \in Range(accounts) \X CeoFields(mappings, fields) :
        Truthy(crmv[k[1]].VatNumber__c) /\ k[1] \in DOMAIN cache}

\* The disambiguation pass, given what show_person_selector gave for each
\* asked key (shown): the new selected_people and show_apply_button, and
\* whether the "Apply Enrichment" button is rendered.
disambiguation_pass(st, shown) ==
    LET made == {k \in DOMAIN shown : shown[k].made}
        show == st.show_apply_button \/ made # {}
    IN  [asked |-> DOMAIN shown,
         people |-> [k \in DOMAIN st.selected_people \cup made |->
                        IF k \in made THEN shown[k].person ELSE st.selected_people[k]],
         show |-> show,
         offered |-> ApplyGate(DOMAIN shown # {}, made = DOMAIN shown, show)]

\* A mutation of WriteList: Account.update is called for every processed
\* account, also with an empty update_data.
WriteListAll(visited, payload) == visited

\* The accounts Account.update is called for, in order: "if update_data".
WriteList(visited, payload) ==
    LET HasPayload(a) == DOMAIN payload[a] # {}
    IN  SelectSeq(visited, HasPayload)

\* The apply pass, given update_data of each cached account (payload): the
\* accounts it processes, its log entries, its Account.update calls and the
\* CRM they leave.
apply_pass(accounts, crmv, cache, payload, rejected) ==
    LET visited == ApplyList(accounts, cache, rejected,
                             {a \in DOMAIN payload : DOMAIN payload[a] # {}})
        writing == WriteList(visited, payload)
    IN  [crm |-> [a \in DOMAIN crmv |->
                    IF a \in Range(writing) \ rejected
                    THEN [f \in DOMAIN crmv[a] |->
                            IF f \in DOMAIN payload[a] THEN payload[a][f]
                            ELSE crmv[a][f]]
                    ELSE crmv[a]],
         logs |-> [i \in 1..Len(visited) |->
                    [event |-> IF DOMAIN payload[visited[i]] = {} THEN "no_match"
                               ELSE IF visited[i] \in rejected THEN "update_failed"
                               ELSE "updated",
                     id |-> visited[i]]],
         updates |-> [i \in 1..Len(writing) |->
                        [id |-> writing[i], payload |-> payload[writing[i]],
                         ok |-> writing[i] \notin rejected]],
         payloads |-> [a \in Range(visited) |-> payload[a]],
         any_rejected |-> Range(writing) \cap rejected # {}]

\* The result of a call that runs the apply pass (u) and then resets.
Updated(before, f, d, u) ==
    [st |-> ResetAfterApply(before, u.any_rejected),
     crm |-> u.crm,
     logs |-> f.logs \o u.logs,
     updates |-> u.updates,
     payloads |-> u.payloads,
     fetched |-> f.fetched,
     failed |-> f.failed,
     asked |-> d.asked,
     offered |-> d.offered,
     performed |-> TRUE,
     accounts |-> f.accounts,
     seen |-> f.cache,
     chosen |-> d.people]

\* A mutation of perform_update: the apply pass runs in every run that renders
\* the button.
perform_update_when_offered(offered, clicked) == offered

\* perform_update: the value of the "Apply Enrichment" button when the run
\* renders it (True in the run its click triggers), False when it does not.
perform_update(offered, clicked) == offered /\ clicked

\* The end of enrich_data after the fetch pass (f) and the disambiguation
\* pass (d): the apply pass runs when the button is rendered and was clicked.
Finish(crmv, fields, mappings, clicked, rejected, f, d) ==
    LET before == [enrichment_started |-> "True",
                   person_selection_state |-> f.cache,
                   selected_people |-> d.people,
                   show_apply_button |-> d.show,
                   selected_accounts |-> f.accounts]
    IN  IF perform_update(d.offered, clicked)
        THEN Updated(before, f, d,
                     apply_pass(f.accounts, crmv, f.cache,
                                [a \in Range(f.accounts) \cap DOMAIN f.cache |->
                                    BuildPayload(a, f.cache[a].data, mappings, fields,
                                                 d.people)],
                                rejected))
        ELSE [st |-> before,
              crm |-> crmv,
              logs |-> f.logs,
              updates |-> <<>>,
              payloads |-> EmptyMap,
              fetched |-> f.fetched,
              failed |-> f.failed,
              asked |-> d.asked,
              offered |-> d.offered,
              performed |-> FALSE,
              accounts |-> f.accounts,
              seen |-> f.cache,
              chosen |-> d.people]

\* enrich_data after its fetch pass (f): show_person_selector is called for
\* each asked key.
AfterFetch(st, crmv, fields, mappings, clicked, pick, rejected, f) ==
    Finish(crmv, fields, mappings, clicked, rejected, f,
           disambiguation_pass(st,
               [k \in AskedKeys(f.accounts, crmv, f.cache, mappings, fields) |->
                   show_person_selector(f.cache[k[1]].people_data, k,
                                        st.selected_people, pick)]))

\* One call of enrich_data(account_ids) on session state st:
\*   crmv      the CRM as Account.get and Account.update see it,
\*   clicked   this run was triggered by a click on "Apply Enrichment",
\*   pick      the operator's choice in a "Select person" box, or NoPick,
\*   fetched   what the provider returns to each GET issued by this call,
\*   rejected  the accounts whose Account.update raises.
\* The result holds the new session state (st), the new CRM, what the call
\* logged, fetched, asked and wrote.
enrich_data(st, account_ids, crmv, fields, mappings, clicked, pick, fetched, rejected) ==
    AfterFetch(st, crmv, fields, mappings, clicked, pick, rejected,
               fetch_pass(st, account_ids, crmv, fetched))

\* -------------------------------------------------------------------------
\* Field mapping interface
\* -------------------------------------------------------------------------
\* get_profinder_fields: the keys of each category, each key by its tokens.
Catalog ==
    [basic |-> {<<"name">>, <<"marketingName">>, <<"businessId">>, <<"businessForm">>,
                <<"founded">>, <<"phoneNumber">>, <<"email">>, <<"www">>,
                <<"PO_street">>, <<"PO_postalCode">>, <<"PO_postalCodeName">>,
                <<"industry">>, <<"tol2008">>, <<"turnoverCategory">>,
                <<"staffCategory">>, <<"riskClass">>, <<"growthClass">>,
                <<"address">>, <<"authorizationToSign">>, <<"hometown">>},
     financials |-> {<<"latest", "turnover">>, <<"latest", "turnoverChange">>,
                     <<"latest", "operatingMargin">>, <<"latest", "operatingProfit">>,
                     <<"latest", "profit">>, <<"latest", "quickRatio">>,
                     <<"latest", "currentRatio">>, <<"latest", "equity">>,
                     <<"latest", "balanceSheetTotal">>, <<"latest", "staff">>,
                     <<"latest", "staffChange">>, <<"latest", "turnoverPerPerson">>},
     offices |-> {<<"first", "name">>, <<"first", "marketingName">>, <<"first", "city">>},
     people |-> {<<"count">>, <<"ceo", "fullName">>, <<"ceo", "title">>,
                 <<"ceo", "phoneNumberExists">>},
     eAddresses |-> {<<"first", "id">>, <<"first", "idType">>, <<"first", "serviceID">>}]

\* list(profinder_fields.keys()); "" is the blank option of the "Category" box.
Categories == DOMAIN Catalog

\* field_options without its blank: f"{selected_category}.{field}".
FieldOptions(category) == {<<category>> \o key : key \in Catalog[category]}

\* The option a newly rendered "Category" box of field f shows:
\* current_mapping.split('.')[0] when it is a category, else the blank.
DefaultCategory(mappings, f) ==
    IF f \in DOMAIN mappings /\ Len(mappings[f]) > 0 /\ mappings[f][1] \in Categories
    THEN mappings[f][1] ELSE ""

\* The option the "Field" box of f shows under a category while the
\* operator has not chosen in it: current_mapping when it is among the
\* options, else the blank (<<>>).
DefaultField(mappings, f, category) ==
    IF f \in DOMAIN mappings /\ mappings[f] \in FieldOptions(category)
    THEN mappings[f] ELSE <<>>

\* A mutation of MappingAfter: the blank option of the "Field" box leaves the
\* entry of the field in place.
MappingAfterKeepingEntry(mappings, f, selected_category, selected_field) ==
    IF selected_category = "" \/ selected_field = <<>> THEN mappings
    ELSE [g \in DOMAIN mappings \cup {f} |->
            IF g = f THEN selected_field ELSE mappings[g]]

\* field_mappings after the row of field f was rendered with these values of
\* its two boxes: a blank category touches nothing, a field option is
\* stored, the blank field option deletes the entry.
MappingAfter(mappings, f, selected_category, selected_field) ==
    IF selected_category = "" THEN mappings
    ELSE IF selected_field # <<>>
    THEN [g \in DOMAIN mappings \cup {f} |->
            IF g = f THEN selected_field ELSE mappings[g]]
    ELSE [g \in DOMAIN mappings \ {f} |-> mappings[g]]

\* -------------------------------------------------------------------------
\* State
\* -------------------------------------------------------------------------
VARIABLES
    crm,                        \* the Account records of the CRM
    provider,                   \* the documents a GET of the provider can return
    category_select,            \* the "Category" box of each selected field
    selected_fields,            \* st.session_state.selected_fields
    field_mappings,             \* st.session_state.field_mappings
    accounts_with_missing_data, \* st.session_state['accounts_with_missing_data']
    checked,                    \* the account ids whose "Select" box is ticked
    enrichment_in_progress,     \* st.session_state.enrichment_in_progress
    enrichment_started,         \* st.session_state.enrichment_started
    person_selection_state,     \* the fetch cache, keyed by account id
    selected_people,            \* the person selections, keyed by selection key
    show_apply_button,          \* st.session_state.show_apply_button
    selected_accounts,          \* st.session_state.selected_accounts
    \* What the last script run did (observed, never read by the script)
    last_event,                 \* "start", "back", "apply" or "other": what triggered it
    apply_offered,              \* it rendered the "Apply Enrichment" button
    asked,                      \* the keys it called show_person_selector for
    logs,                       \* the logs list of its enrich_data call
    updates,                    \* its Account.update calls, in order
    payloads,                   \* update_data of each account of its apply loop
    performed,                  \* it ran the apply loop
    fetched_now,                \* the accounts it issued a GET for
    run_accounts,               \* selected_accounts as its passes iterated it
    seen,                       \* person_selection_state before any reset
    chosen,                     \* selected_people before any reset
    \* What the runs since the last "Enrich from Profinder" or "Back" did
    written,                    \* the ids of their Account.update calls, in order
    \* Counters bounding the explored behaviours
    edits,                      \* configuration edits made so far
    sessions,                   \* enrichments started so far
    applies                     \* apply passes made so far

vars == <<crm, provider, category_select, written, selected_fields, field_mappings, accounts_with_missing_data, checked,
          enrichment_in_progress, enrichment_started, person_selection_state,
          selected_people, show_apply_button, selected_accounts, last_event,
          apply_offered, asked, logs, updates, payloads, performed, fetched_now,
          run_accounts, seen, chosen, edits, sessions, applies>>

\* The session state initialize_credentials leaves and a page on which no
\* button was clicked yet.
NothingRunYet ==
    /\ written = <<>>
    /\ category_select = [f \in selected_fields |-> DefaultCategory(field_mappings, f)]
    /\ accounts_with_missing_data = <<>>
    /\ checked = {}
    /\ enrichment_in_progress = FALSE
    /\ enrichment_started = "unset"
    /\ person_selection_state = EmptyMap
    /\ selected_people = EmptyMap
    /\ show_apply_button = FALSE
    /\ selected_accounts = <<>>
    /\ last_event = "other"
    /\ apply_offered = FALSE
    /\ asked = {}
    /\ logs = <<>>
    /\ updates = <<>>
    /\ payloads = EmptyMap
    /\ performed = FALSE
    /\ fetched_now = {}
    /\ run_accounts = <<>>
    /\ seen = EmptyMap
    /\ chosen = EmptyMap
    /\ edits = 0
    /\ sessions = 0
    /\ applies = 0

\* The state after "Connect" and the first complete script run: the field
\* check boxes keep the default fields the Account object has.
Init ==
    /\ crm = InitCrm
    /\ provider = FetchResults
    /\ selected_fields = default_fields \cap AvailableFields
    /\ field_mappings = default_mappings
    /\ NothingRunYet

\* -------------------------------------------------------------------------
\* One script run
\* -------------------------------------------------------------------------
\* selected_accounts of the main section: the listed accounts whose box is ticked.
TickedAccounts(list, boxes) ==
    LET IsTicked(e) == e.Id \in boxes
        ticked == SelectSeq(list, IsTicked)
    IN  [i \in 1..Len(ticked) |-> ticked[i].Id]

\* A mutation of CancelReset: leaves the person selections in place.
CancelResetKeepingPeople(st) ==
    [st EXCEPT !.person_selection_state = EmptyMap,
               !.show_apply_button = FALSE]

\* The session state the "Back" button leaves (before its st.rerun()).
CancelReset(st) ==
    [st EXCEPT !.person_selection_state = EmptyMap,
               !.selected_people = EmptyMap,
               !.show_apply_button = FALSE]

Session ==
    [enrichment_started |-> enrichment_started,
     person_selection_state |-> person_selection_state,
     selected_people |-> selected_people,
     show_apply_button |-> show_apply_button,
     selected_accounts |-> selected_accounts]

\* The script from the field selection section to its end, for one
\* interaction: fields, mappings and boxes are the widget-backed values after
\* it; identify, start, back and clicked tell which button (if any) it was;
\* pick is the choice made in a "Select person" box (or NoPick).
Script(event, fields, mappings, boxes, identify, start, back, clicked, pick) ==
    LET list == IF identify
                THEN fetch_accounts_with_missing_data(crm, fields)
                ELSE accounts_with_missing_data
        ticked == TickedAccounts(list, boxes)
        in_progress == IF start THEN TRUE
                       ELSE IF back THEN FALSE
                       ELSE enrichment_in_progress
        st0 == IF start THEN [Session EXCEPT !.selected_accounts = ticked]
               ELSE IF back THEN CancelReset(Session)
               ELSE Session
        enriches == ticked # <<>> /\ in_progress
    IN  /\ last_event' = event
        /\ provider' = provider
        /\ selected_fields' = fields
        /\ field_mappings' = mappings
        /\ accounts_with_missing_data' = list
        /\ checked' = boxes \cap {list[i].Id : i \in 1..Len(list)}
        /\ enrichment_in_progress' = in_progress
        /\ sessions' = IF start THEN sessions + 1 ELSE sessions
        /\ IF enriches
           THEN \E fetched \in [FetchSet(st0, st0.selected_accounts, crm) -> provider],
                   rejected \in IF clicked
                                THEN SUBSET Range(SessionAccounts(st0, st0.selected_accounts))
                                ELSE {{}} :
                \E r \in {enrich_data(st0, st0.selected_accounts, crm, fields,
                                       mappings, clicked, pick, fetched, rejected)} :
                        /\ enrichment_started' = r.st.enrichment_started
                        /\ person_selection_state' = r.st.person_selection_state
                        /\ selected_people' = r.st.selected_people
                        /\ show_apply_button' = r.st.show_apply_button
                        /\ selected_accounts' = r.st.selected_accounts
                        /\ crm' = r.crm
                        /\ apply_offered' = r.offered
                        /\ asked' = r.asked
                        /\ logs' = r.logs
                        /\ updates' = r.updates
                        /\ payloads' = r.payloads
                        /\ performed' = r.performed
                        /\ fetched_now' = r.fetched
                        /\ run_accounts' = r.accounts
                        /\ seen' = r.seen
                        /\ chosen' = r.chosen
                        /\ applies' = IF r.performed THEN applies + 1 ELSE applies
                        /\ written' = (IF start \/ back THEN <<>> ELSE written) \o
                                       [i \in 1..Len(r.updates) |-> r.updates[i].id]
           ELSE /\ enrichment_started' = st0.enrichment_started
                /\ person_selection_state' = st0.person_selection_state
                /\ selected_people' = st0.selected_people
                /\ show_apply_button' = st0.show_apply_button
                /\ selected_accounts' = st0.selected_accounts
                /\ crm' = crm
                /\ apply_offered' = FALSE
                /\ asked' = {}
                /\ logs' = <<>>
                /\ updates' = <<>>
                /\ payloads' = EmptyMap
                /\ performed' = FALSE
                /\ fetched_now' = {}
                /\ run_accounts' = <<>>
                /\ seen' = st0.person_selection_state
                /\ chosen' = st0.selected_people
                /\ applies' = applies
                /\ written' = IF start \/ back THEN <<>> ELSE written

ListedIds == {accounts_with_missing_data[i].Id : i \in 1..Len(accounts_with_missing_data)}

Ticked == TickedAccounts(accounts_with_missing_data, checked)

\* -------------------------------------------------------------------------
\* Operator interactions
\* -------------------------------------------------------------------------
\* "Identify accounts with missing data"
Identify ==
    /\ Script("other", selected_fields, field_mappings, checked,
              TRUE, FALSE, FALSE, FALSE, NoPick)
    /\ edits' = edits
    /\ category_select' = category_select

\* A "Select" check box of a listed account.
ToggleAccount(a) ==
    /\ a \in ListedIds
    /\ Script("other", selected_fields, field_mappings,
              IF a \in checked THEN checked \ {a} ELSE checked \cup {a},
              FALSE, FALSE, FALSE, FALSE, NoPick)
    /\ edits' = edits
    /\ category_select' = category_select

\* "Select All" and its select_all_accounts callback.
SelectAll ==
    /\ accounts_with_missing_data # <<>>
    /\ Script("other", selected_fields, field_mappings, checked \cup ListedIds,
              FALSE, FALSE, FALSE, FALSE, NoPick)
    /\ edits' = edits
    /\ category_select' = category_select

\* A check box of the field selection section: the row of a field that
\* becomes selected is rendered anew, the row of a field that becomes
\* unselected is no longer rendered.
ToggleField(f) ==
    /\ edits < MaxConfigEdits
    /\ f \in AvailableFields
    /\ Script("other",
              IF f \in selected_fields THEN selected_fields \ {f}
              ELSE selected_fields \cup {f},
              field_mappings, checked, FALSE, FALSE, FALSE, FALSE, NoPick)
    /\ category_select' =
            [g \in selected_fields' |->
                IF g \in selected_fields THEN category_select[g]
                ELSE DefaultCategory(field_mappings, g)]
    /\ edits' = edits + 1

\* A choice in the "Category" box of field f ("" is its blank option); the
\* "Field" box then shows its default option under that category.
ChooseCategory(f, category) ==
    /\ f \in selected_fields
    /\ category \in Categories \cup {""}
    /\ category # category_select[f]
    /\ Script("other", selected_fields,
              MappingAfter(field_mappings, f, category,
                           IF category = "" THEN <<>>
                           ELSE DefaultField(field_mappings, f, category)),
              checked, FALSE, FALSE, FALSE, FALSE, NoPick)
    /\ category_select' = [category_select EXCEPT ![f] = category]
    /\ edits' = edits + 1

\* A choice in the "Field" box of field f, enabled under a category: one of
\* the paths of that category or the blank option (<<>>).
ChoosePath(f, path) ==
    /\ f \in selected_fields
    /\ category_select[f] # ""
    /\ path \in FieldOptions(category_select[f]) \cup {<<>>}
    /\ Get2(field_mappings, f) # path
    /\ Script("other", selected_fields,
              MappingAfter(field_mappings, f, category_select[f], path),
              checked, FALSE, FALSE, FALSE, FALSE, NoPick)
    /\ category_select' = category_select
    /\ edits' = edits + 1

\* The "Field" box of a field set to a catalog path.
SetMapping(f, path) ==
    /\ edits < MaxConfigEdits
    /\ path \in CatalogPaths
    /\ ChoosePath(f, path)

\* The "Field" box of a field set to its blank option.
ClearMapping(f) ==
    /\ edits < MaxConfigEdits
    /\ ChoosePath(f, <<>>)

\* "Enrich from Profinder", rendered while no enrichment is in progress.
Start ==
    /\ Ticked # <<>>
    /\ ~enrichment_in_progress
    /\ sessions < MaxSessions
    /\ Script("start", selected_fields, field_mappings, checked,
              FALSE, TRUE, FALSE, FALSE, NoPick)
    /\ edits' = edits
    /\ category_select' = category_select

\* "Back", rendered while an enrichment is in progress.
Back ==
    /\ Ticked # <<>>
    /\ enrichment_in_progress
    /\ Script("back", selected_fields, field_mappings, checked,
              FALSE, FALSE, TRUE, FALSE, NoPick)
    /\ edits' = edits
    /\ category_select' = category_select

\* The options of the "Select person" box the last run rendered for key
\* (none when it found the CEO itself, or when the session has ended).
PickableIndexes(key) ==
    IF /\ key \in asked
       /\ key[1] \in DOMAIN person_selection_state
       /\ CeoIndex(person_selection_state[key[1]].people_data) = 0
    THEN 1..Len(person_selection_state[key[1]].people_data)
    ELSE {}

\* A choice in the "Select person" box the last run rendered for key.
PickPerson(key, index) ==
    /\ index \in PickableIndexes(key)
    /\ Script("other", selected_fields, field_mappings, checked,
              FALSE, FALSE, FALSE, FALSE, [key |-> key, index |-> index])
    /\ edits' = edits
    /\ category_select' = category_select

\* "Apply Enrichment", when the last run rendered it.
Apply ==
    /\ apply_offered
    /\ applies < MaxApplies
    /\ Script("apply", selected_fields, field_mappings, checked,
              FALSE, FALSE, FALSE, TRUE, NoPick)
    /\ edits' = edits
    /\ category_select' = category_select

\* Any interaction that changes nothing the script reads (a sidebar input).
Rerun ==
    /\ Script("other", selected_fields, field_mappings, checked,
              FALSE, FALSE, FALSE, FALSE, NoPick)
    /\ edits' = edits
    /\ category_select' = category_select

\* The first enrichment of a behaviour.
StartOnce ==
    /\ sessions = 0
    /\ Start

\* Enrichment sessions under the default configuration.
Next ==
    \/ Identify
    \/ \E a \in Range(AccountIds) : ToggleAccount(a)
    \/ SelectAll
    \/ Start
    \/ Back
    \/ \E key \in asked : \E index \in PickableIndexes(key) : PickPerson(key, index)
    \/ Apply
    \/ Rerun

Spec == Init /\ [][Next]_vars

\* One enrichment session with configuration edits at any moment.
NextConfig ==
    \/ Identify
    \/ \E a \in Range(AccountIds) : ToggleAccount(a)
    \/ SelectAll
    \/ \E f \in AvailableFields : ToggleField(f)
    \/ \E f \in AvailableFields, path \in CatalogPaths : SetMapping(f, path)
    \/ \E f \in AvailableFields : ClearMapping(f)
    \/ StartOnce
    \/ Back
    \/ \E key \in asked : \E index \in PickableIndexes(key) : PickPerson(key, index)
    \/ Apply
    \/ Rerun

SpecConfig == Init /\ [][NextConfig]_vars

\* -------------------------------------------------------------------------
\* The missing-data selector over a family of CRM contents
\* -------------------------------------------------------------------------
\* The fields of interest the selector is exercised with: a text field and
\* a numeric field of the Account object.
SelectorFields == {"Name", "NumberOfEmployees"}

\* Account records as the query returns them: a queried field without a
\* value is null, a text field may be empty, a numeric field may be zero.
SelectorRecords ==
    [Name : {None, Str(""), Str("Acme")},
     NumberOfEmployees : {None, Num(0), Num(5)},
     VatNumber__c : {None, Str("FI123")}]

SelectorCrms == [{"001A", "001B"} -> SelectorRecords]

\* Any such CRM, any choice of field check boxes, nothing identified yet.
InitSelector ==
    /\ crm \in SelectorCrms
    /\ provider = FetchResults
    /\ selected_fields \in SUBSET SelectorFields
    /\ field_mappings = default_mappings
    /\ NothingRunYet

\* "Identify accounts with missing data" and the account check boxes.
NextSelector ==
    \/ Identify
    \/ \E a \in Range(AccountIds) : ToggleAccount(a)

SpecSelector == InitSelector /\ [][NextSelector]_vars

\* -------------------------------------------------------------------------
\* Sessions over the numeric fields (people.count, financials.latest.*)
\* -------------------------------------------------------------------------
\* Two accounts with the numeric fields of the default mapping.
ResolverCrm ==
    [a \in {"001A", "001B"} |->
        IF a = "001A"
        THEN [Name |-> Str("Acme"), NumberOfEmployees |-> None, AnnualRevenue |-> None,
              VatNumber__c |-> Str("FI123")]
        ELSE [Name |-> Str("Beta"), NumberOfEmployees |-> Num(7), AnnualRevenue |-> None,
              VatNumber__c |-> Str("FI456")]]

\* A company whose document has no people key, with the years 2021, 2023
\* and 2022 in its financials.
DocThreeYears ==
    [success |-> TRUE,
     financials |-> (<<2, 0, 2, 1>> :> [turnover |-> Num(10)]) @@
                    (<<2, 0, 2, 3>> :> [turnover |-> Num(30)]) @@
                    (<<2, 0, 2, 2>> :> [turnover |-> Num(20)])]

\* A company with an empty people list and an empty financials map.
DocNoFinancials == [success |-> TRUE, people |-> <<>>, financials |-> <<>>]

ResolverResults == {FetchError, DocNoCeo, DocThreeYears, DocNoFinancials}

\* The operator has left only numeric fields ticked.
InitResolver ==
    /\ crm = ResolverCrm
    /\ provider = ResolverResults
    /\ selected_fields \in (SUBSET {"NumberOfEmployees", "AnnualRevenue"}) \ {{}}
    /\ field_mappings = default_mappings
    /\ NothingRunYet

\* One enrichment session; no person is needed for these fields.
NextResolver ==
    \/ Identify
    \/ \E a \in Range(AccountIds) : ToggleAccount(a)
    \/ SelectAll
    \/ StartOnce
    \/ Back
    \/ Apply
    \/ Rerun

SpecResolver == InitResolver /\ [][NextResolver]_vars

\* -------------------------------------------------------------------------
\* Sessions over a family of people lists
\* -------------------------------------------------------------------------
Dan == [fullName |-> "Dan", title |-> "TOIMITUSJOHTAJA"]

\* A second person called Ann.
Ann2 == [fullName |-> "Ann", title |-> "Partner"]

\* A company whose managing director is listed first, title in capitals.
DocCeoFirst == [success |-> TRUE, people |-> <<Dan, Ann>>]

\* A company without managing director, two of its people with one name.
DocTwins == [success |-> TRUE, people |-> <<Ann, Ann2, Cid>>]

PersonResults == {DocCeo, DocCeoFirst, DocNoCeo, DocTwins, DocEmpty}

\* The default configuration, with a provider serving these companies.
InitPerson ==
    /\ crm = InitCrm
    /\ provider = PersonResults
    /\ selected_fields = default_fields \cap AvailableFields
    /\ field_mappings = default_mappings
    /\ NothingRunYet

\* One enrichment session.
NextPerson ==
    \/ Identify
    \/ \E a \in Range(AccountIds) : ToggleAccount(a)
    \/ SelectAll
    \/ StartOnce
    \/ Back
    \/ \E key \in asked : \E index \in PickableIndexes(key) : PickPerson(key, index)
    \/ Apply
    \/ Rerun

SpecPerson == InitPerson /\ [][NextPerson]_vars

\* -------------------------------------------------------------------------
\* Sessions with two fields mapped to the managing director
\* -------------------------------------------------------------------------
\* The default configuration after the operator chose category "people" and
\* then path "people.ceo.title" in the row of Phone.
TwoCeoMappings ==
    [g \in DOMAIN default_mappings |->
        IF g = "Phone" THEN <<"people", "ceo", "title">> ELSE default_mappings[g]]

InitTwoCeo ==
    /\ crm = InitCrm
    /\ provider = FetchResults
    /\ selected_fields = default_fields \cap AvailableFields
    /\ field_mappings = TwoCeoMappings
    /\ NothingRunYet

\* One enrichment session.
NextTwoCeo ==
    \/ Identify
    \/ \E a \in Range(AccountIds) : ToggleAccount(a)
    \/ SelectAll
    \/ StartOnce
    \/ Back
    \/ \E key \in asked : \E index \in PickableIndexes(key) : PickPerson(key, index)
    \/ Apply
    \/ Rerun

SpecTwoCeo == InitTwoCeo /\ [][NextTwoCeo]_vars

\* -------------------------------------------------------------------------
\* The end-to-end scenario: fields Name and Phone, a document with a phone
\* number only
\* -------------------------------------------------------------------------
DocPhoneOnly == [success |-> TRUE, basic |-> [phoneNumber |-> Str("+358401234567")]]

\* Account 001A (VAT number FI123) has no phone number; the operator has
\* left Name and Phone ticked; the mappings are the default ones, among them
\* Phone -> basic.phoneNumber; a GET returns the document or fails.
InitScenario ==
    /\ crm = InitCrm
    /\ provider = {DocPhoneOnly, FetchError}
    /\ selected_fields = {"Name", "Phone"}
    /\ field_mappings = default_mappings
    /\ NothingRunYet

NextScenario ==
    \/ Identify
    \/ \E a \in Range(AccountIds) : ToggleAccount(a)
    \/ SelectAll
    \/ Start
    \/ Back
    \/ Apply
    \/ Rerun

SpecScenario == InitScenario /\ [][NextScenario]_vars

\* -------------------------------------------------------------------------
\* The mapping interface over the whole catalog
\* -------------------------------------------------------------------------
\* A choice in a "Category" box.
MapCategory(f, category) ==
    /\ edits < MaxMappingEdits
    /\ ChooseCategory(f, category)

\* A choice in a "Field" box: a path of the catalog or the blank option.
MapPath(f, path) ==
    /\ edits < MaxMappingEdits
    /\ ChoosePath(f, path)

\* The options of all "Field" boxes.
AllFieldOptions == UNION {FieldOptions(c) : c \in Categories}

NextMapping ==
    \/ \E f \in AvailableFields : ToggleField(f)
    \/ \E f \in AvailableFields, c \in Categories \cup {""} : MapCategory(f, c)
    \/ \E f \in AvailableFields, path \in AllFieldOptions \cup {<<>>} : MapPath(f, path)

SpecMapping == Init /\ [][NextMapping]_vars

\* -------------------------------------------------------------------------
\* Properties
\* -------------------------------------------------------------------------
\* The ids of the log entries of the given events, in log order.
LogIds(events) ==
    LET Wanted(e) == e.event \in events
        kept == SelectSeq(logs, Wanted)
    IN  [i \in 1..Len(kept) |-> kept[i].id]

\* The accounts of the last run that had provider data, in list order.
RunCached ==
    LET InSeen(a) == a \in DOMAIN seen
    IN  SelectSeq(run_accounts, InSeen)

\* A step from one run of an enrichment session to the next run of the same
\* session ("Enrich from Profinder" and "Back" are the only ways in and out).
SameSessionStep == enrichment_in_progress /\ enrichment_in_progress'

\* C1: whenever the "Apply Enrichment" button is offered, every account of
\* the session with provider data has, for every mapped and selected
\* people.ceo.* field, a stored person selection taken from its own people
\* list; so while one such selection is missing, apply is offered for no one.
C1_ApplyOnlyWhenSelectionsComplete ==
    apply_offered =>
        \A a \in Range(RunCached) :
            \A f \in CeoFields(field_mappings, selected_fields) :
                /\ <<a, f>> \in asked
                /\ <<a, f>> \in DOMAIN chosen
                /\ chosen[<<a, f>>] \in Range(seen[a].people_data)

\* C1 witness: apply is offered for a session of two accounts that both
\* needed a person, one of them chosen through the select box.
C1_Witness ==
    /\ apply_offered
    /\ Len(RunCached) = 2
    /\ \E k \in asked : CeoIndex(seen[k[1]].people_data) = 0
    /\ \E k \in asked : CeoIndex(seen[k[1]].people_data) # 0

\* C2 (as claimed): an account for which one run of a session issued a GET
\* is not fetched again by the next run of the same session.
C2_FetchedAtMostOnce ==
    [][SameSessionStep => fetched_now \cap fetched_now' = {}]_vars

\* C3: after "Back" no enrichment is in progress, the fetch cache and the
\* person selections are empty, and the cancelling run fetched nothing,
\* logged nothing and issued no update; the first run of any session holds
\* only provider data it fetched itself and selections it made itself.
C3_CancelDiscardsSession ==
    /\ last_event = "back" =>
            /\ ~enrichment_in_progress
            /\ person_selection_state = EmptyMap
            /\ selected_people = EmptyMap
            /\ ~show_apply_button
            /\ ~apply_offered
            /\ logs = <<>>
            /\ updates = <<>>
            /\ fetched_now = {}
            /\ ~performed
    /\ last_event = "start" =>
            /\ DOMAIN person_selection_state \subseteq fetched_now
            /\ DOMAIN selected_people \subseteq asked

\* C3 witness: a second session, started after the first one was cancelled,
\* has fetched data and made a selection.
C3_Witness ==
    /\ last_event = "start"
    /\ sessions = 2
    /\ applies = 0
    /\ DOMAIN person_selection_state # {}
    /\ DOMAIN selected_people # {}

\* C4 (as claimed): after the run that applied the updates no enrichment is
\* in progress, so that "Enrich from Profinder" is what the page offers.
C4_IdleAfterApply == performed => ~enrichment_in_progress

\* C5: when the apply pass has ended, the fetch cache, the person selections
\* and the session's account list are empty, whatever the writes did.
C5_ApplyClearsSession ==
    performed =>
        /\ person_selection_state = EmptyMap
        /\ selected_people = EmptyMap
        /\ selected_accounts = <<>>

\* C5 witness: an apply pass in which one write succeeded and one was rejected.
C5_Witness ==
    /\ performed
    /\ \E i, j \in 1..Len(updates) : updates[i].ok /\ ~updates[j].ok

\* C6 (as claimed): an account whose fetch failed in one run of a session is
\* not processed by the next run of the same session: it gets no provider
\* data, no person selector and no update.
C6_FailedRecordExcluded ==
    [][SameSessionStep =>
        \A a \in Range(LogIds({"fetch_failed"})) :
            /\ a \notin DOMAIN seen'
            /\ \A k \in asked' : k[1] # a
            /\ \A i \in 1..Len(updates') : updates'[i].id # a]_vars

\* C7: a failure never stops the passes.  Every account of the session either
\* got provider data or has its own "fetch failed" entry; an apply pass
\* logs exactly one outcome for every account with provider data, in list
\* order, a rejected write as "update failed"; and every accepted write is
\* in the CRM after the pass, whatever happened to the other accounts.
C7_FailuresDoNotAbort ==
    /\ Range(run_accounts) \subseteq DOMAIN seen \cup Range(LogIds({"fetch_failed"}))
    /\ Len(LogIds({"fetch_failed"})) = Cardinality(Range(run_accounts) \ DOMAIN seen)
    /\ performed =>
        /\ LogIds({"updated", "update_failed", "no_match"}) = RunCached
        /\ \A i \in 1..Len(updates) :
            /\ ~updates[i].ok => updates[i].id \in Range(LogIds({"update_failed"}))
            /\ updates[i].ok =>
                /\ updates[i].id \in Range(LogIds({"updated"}))
                /\ \A f \in DOMAIN updates[i].payload :
                        crm[updates[i].id][f] = updates[i].payload[f]

\* C7 witness: the first account's write was rejected and the second
\* account's write was made all the same.
C7_Witness ==
    /\ performed
    /\ Len(updates) = 2
    /\ ~updates[1].ok
    /\ updates[2].ok

\* The value the apply pass of the run just made resolved for field f of
\* account a.
Resolved(a, f) == ResolveValue(seen[a].data, field_mappings[f], <<a, f>>, chosen)

\* C8 (as claimed): a field that holds a non-blank value never holds a blank
\* one after the next run.
C8_NeverBlanked ==
    [][\A a \in DOMAIN crm : \A f \in AvailableFields :
        ~IsBlank(crm[a][f]) => ~IsBlank(crm'[a][f])]_vars

\* C8 (amended): a run changes a field only by an accepted write of its
\* apply pass, a field whose resolved value is "no value" keeps its value,
\* and a non-blank field becomes blank only when the value resolved for it
\* is an explicit empty string from the provider document.
C8_BlankOnlyFromExplicitBlank ==
    [][\A a \in DOMAIN crm : \A f \in AvailableFields :
        LET eligible == /\ performed'
                        /\ a \in DOMAIN payloads'
                        /\ f \in EligibleFields(field_mappings', selected_fields')
            value == ResolveValue(seen'[a].data, field_mappings'[f], <<a, f>>, chosen')
        IN  /\ crm'[a][f] # crm[a][f] => eligible /\ value # None /\ crm'[a][f] = value
            /\ (~IsBlank(crm[a][f]) /\ IsBlank(crm'[a][f])) =>
                    eligible /\ value = Str("")]_vars

\* C8 witness: the apply pass has replaced the name "Acme" by the empty
\* name of the provider document and left the phone number of an account
\* without resolved phone number alone.
C8_Witness ==
    /\ performed
    /\ crm["001A"].Name = Str("")
    /\ \E a \in DOMAIN payloads :
        /\ "Phone" \notin DOMAIN payloads[a]
        /\ crm[a].Phone = InitCrm[a].Phone

\* C9: the payload of an account has no key whose resolved value is "no
\* value", and has the key, with the empty string, when the resolved value
\* is an empty string of the provider document.
C9_PayloadKeys ==
    \A a \in DOMAIN payloads :
        \A f \in EligibleFields(field_mappings, selected_fields) :
            /\ Resolved(a, f) = None => f \notin DOMAIN payloads[a]
            /\ Resolved(a, f) = Str("") =>
                    f \in DOMAIN payloads[a] /\ payloads[a][f] = Str("")
            /\ (/\ field_mappings[f] = <<"basic", "name">>
                /\ Get(BasicOf(seen[a].data), "name") = Str("")) =>
                    f \in DOMAIN payloads[a] /\ payloads[a][f] = Str("")

\* C9 witness: one payload carries an explicit empty string, and one payload
\* lacks a field whose resolved value was "no value".
C9_Witness ==
    /\ \E a \in DOMAIN payloads : \E f \in DOMAIN payloads[a] :
            payloads[a][f] = Str("")
    /\ \E a \in DOMAIN payloads :
        \E f \in EligibleFields(field_mappings, selected_fields) :
            Resolved(a, f) = None /\ f \notin DOMAIN payloads[a]

\* C10: every key of every payload, and every field a person selector was
\* shown for, is in selected_fields and in field_mappings as they are when
\* the run is made.
C10_OnlyMappedSelectedFields ==
    /\ \A a \in DOMAIN payloads :
            DOMAIN payloads[a] \subseteq selected_fields \cap DOMAIN field_mappings
    /\ \A i \in 1..Len(updates) :
            DOMAIN updates[i].payload \subseteq selected_fields \cap DOMAIN field_mappings
    /\ \A k \in asked : k[2] \in selected_fields \cap DOMAIN field_mappings

\* C10 witness: an apply pass wrote an account while a mapped field with a
\* value at the provider was not selected.
C10_Witness ==
    /\ performed
    /\ \E i \in 1..Len(updates) : updates[i].ok
    /\ \E a \in DOMAIN payloads :
        \E f \in (DOMAIN field_mappings \cap AvailableFields) \ selected_fields :
            /\ HasDot(field_mappings[f])
            /\ Resolved(a, f) # None

\* C11: person selections are kept per (account, field).  A choice in the
\* "Select person" box of one field leaves the stored selection of every
\* other field of the same account as it was, and the value an apply pass
\* puts in the payload for a people.ceo.* field is the attribute of the
\* person stored under that account and that field.
C11_SelectionPerField ==
    [][/\ \A key \in asked : \A index \in PickableIndexes(key) :
            PickPerson(key, index) =>
                \A other \in DOMAIN selected_people :
                    (other[1] = key[1] /\ other[2] # key[2]) =>
                        /\ other \in DOMAIN selected_people'
                        /\ selected_people'[other] = selected_people[other]
       /\ \A a \in DOMAIN payloads' : \A f \in DOMAIN payloads'[a] :
            IsCeoPath(field_mappings'[f]) =>
                /\ <<a, f>> \in DOMAIN chosen'
                /\ payloads'[a][f] = PersonGet(chosen'[<<a, f>>], field_mappings'[f][3])]_vars

\* C11 witness: an apply pass wrote two people.ceo.* fields of one account
\* from two different persons.
C11_Witness ==
    /\ performed
    /\ \E a \in DOMAIN payloads : \E f1, f2 \in DOMAIN payloads[a] :
        /\ f1 # f2
        /\ IsCeoPath(field_mappings[f1])
        /\ IsCeoPath(field_mappings[f2])
        /\ chosen[<<a, f1>>] # chosen[<<a, f2>>]

\* The fields of interest that are absent or blank on account a.
BlankFields(a) == {f \in selected_fields : IsBlank(Get(crm[a], f))}

\* C12 (as claimed): after "Identify accounts with missing data" an account
\* the query returns (one with a VAT number) is listed exactly when a field
\* of interest is absent or blank on it, each listed account carries exactly
\* its absent or blank fields of interest, and nothing is listed when no
\* field is selected.
C12_SelectorExact ==
    [][Identify =>
        /\ \A a \in DOMAIN crm :
                crm[a].VatNumber__c # None =>
                    ((\E i \in 1..Len(accounts_with_missing_data') :
                            accounts_with_missing_data'[i].Id = a)
                        <=> BlankFields(a) # {})
        /\ \A i \in 1..Len(accounts_with_missing_data') :
                accounts_with_missing_data'[i].Missing =
                    BlankFields(accounts_with_missing_data'[i].Id)
        /\ selected_fields = {} => accounts_with_missing_data' = <<>>]_vars

\* data.get('financials') of the provider document of account a, the empty
\* map when the document has none.
FinancialsOf(a) ==
    IF "financials" \in DOMAIN seen[a].data THEN seen[a].data.financials ELSE <<>>

\* C13: for a field mapped to financials.latest.X, the payload of an apply
\* pass holds attribute X of the entry whose year key is the greatest as an
\* integer (and lacks the field when that entry has no X); when the
\* document has no financials or an empty map, the payload lacks the field.
C13_LatestYearNumeric ==
    \A a \in DOMAIN payloads :
        \A f \in EligibleFields(field_mappings, selected_fields) :
            (Len(field_mappings[f]) = 3 /\ SubSeq(field_mappings[f], 1, 2) = <<"financials", "latest">>) =>
                IF DOMAIN FinancialsOf(a) = {}
                THEN f \notin DOMAIN payloads[a]
                ELSE \E y \in DOMAIN FinancialsOf(a) :
                        /\ \A z \in DOMAIN FinancialsOf(a) : YearToInt(z) <= YearToInt(y)
                        /\ Get(payloads[a], f) = Get(FinancialsOf(a)[y], field_mappings[f][3])

\* C13 witness: one apply pass wrote the turnover of year 1000 of a document
\* that also has a year 999, and left the revenue out for a document with
\* an empty financials map.
C13_Witness ==
    /\ performed
    /\ \E a \in DOMAIN payloads :
        /\ seen[a].data = DocNoCeo
        /\ crm[a].AnnualRevenue = Num(2)
    /\ \E a \in DOMAIN payloads :
        /\ seen[a].data = DocNoFinancials
        /\ "AnnualRevenue" \notin DOMAIN payloads[a]
        /\ "AnnualRevenue" \in selected_fields

\* The number of entries of the people list of the provider document of
\* account a, 0 when the document has no people key.
PeopleCount(a) ==
    IF "people" \in DOMAIN seen[a].data THEN Len(seen[a].data.people) ELSE 0

\* C14: for a field mapped to people.count, the payload of an apply pass
\* holds the number of entries of the people list, the number 0 when the
\* list is empty or absent; an update carrying it is issued for the account
\* and, when accepted, leaves that number in the CRM.
C14_PeopleCountZero ==
    \A a \in DOMAIN payloads :
        \A f \in EligibleFields(field_mappings, selected_fields) :
            field_mappings[f] = <<"people", "count">> =>
                /\ f \in DOMAIN payloads[a]
                /\ payloads[a][f] = Num(PeopleCount(a))
                /\ \E i \in 1..Len(updates) :
                        /\ updates[i].id = a
                        /\ f \in DOMAIN updates[i].payload
                        /\ updates[i].payload[f] = Num(PeopleCount(a))
                        /\ updates[i].ok => crm[a][f] = Num(PeopleCount(a))

\* C14 witness: one apply pass wrote the count 0 for a document with an
\* empty people list and for a document without a people key.
C14_Witness ==
    /\ performed
    /\ DOMAIN seen = {"001A", "001B"}
    /\ seen["001A"].data = DocNoFinancials
    /\ crm["001A"].NumberOfEmployees = Num(0)
    /\ seen["001B"].data = DocThreeYears
    /\ crm["001B"].NumberOfEmployees = Num(0)

\* The people list the last run held for the account of selection key k.
PeopleSeen(k) == seen[k[1]].people_data

\* The list has an entry whose title is "toimitusjohtaja" in any casing.
HasDirector(people_data) ==
    \E i \in 1..Len(people_data) : Lower(people_data[i].title) = "toimitusjohtaja"

\* C15: whenever the people list of an account holds a managing director,
\* wherever in the list, the selection of every asked key of that account
\* is an entry of the list with that title, and would be so whichever
\* person had been stored for the key before; and when every asked key has
\* one, the apply button is offered without any choice by the operator.
C15_DirectorAutoSelected ==
    /\ \A k \in asked :
            HasDirector(PeopleSeen(k)) =>
                /\ k \in DOMAIN chosen
                /\ chosen[k] \in Range(PeopleSeen(k))
                /\ Lower(chosen[k].title) = "toimitusjohtaja"
                /\ \A earlier \in {Ann, Ann2, Bob, Cid, Dan} :
                        /\ show_person_selector(PeopleSeen(k), k, k :> earlier, NoPick).made
                        /\ show_person_selector(PeopleSeen(k), k, k :> earlier, NoPick).person
                                = chosen[k]
    /\ (asked # {} /\ \A k \in asked : HasDirector(PeopleSeen(k))) => apply_offered

\* C15 witness: right after "Enrich from Profinder" the managing directors
\* of two accounts are selected, one listed last, one listed first with the
\* title in capitals, and the apply button is offered.
C15_Witness ==
    /\ last_event = "start"
    /\ apply_offered
    /\ \E k1, k2 \in asked :
        /\ PeopleSeen(k1) = <<Ann, Bob>> /\ chosen[k1] = Bob
        /\ PeopleSeen(k2) = <<Dan, Ann>> /\ chosen[k2] = Dan

\* C19 (as claimed): after a choice in the "Select person" box of a key, the
\* person stored for the key is the entry of the people list the operator
\* chose.
C19_PickedEntryStored ==
    [][\A key \in asked : \A index \in PickableIndexes(key) :
        PickPerson(key, index) =>
            /\ key \in DOMAIN selected_people'
            /\ selected_people'[key] = person_selection_state[key[1]].people_data[index]]_vars

\* C20: in the first run of a session, before the operator can have chosen
\* anything, every asked key of an account with a non-empty people list
\* without managing director has the first listed person as its selection;
\* and when no asked account has an empty people list, the apply button is
\* offered in that run.
C20_FirstPersonCounts ==
    last_event = "start" =>
        /\ \A k \in asked :
                (PeopleSeen(k) # <<>> /\ ~HasDirector(PeopleSeen(k))) =>
                    /\ k \in DOMAIN selected_people
                    /\ selected_people[k] = PeopleSeen(k)[1]
        /\ (\A k \in asked : PeopleSeen(k) # <<>>) => apply_offered

\* C20 witness: right after "Enrich from Profinder" the apply button is
\* offered for a session of two accounts without managing director, each
\* with its first listed person selected.
C20_Witness ==
    /\ last_event = "start"
    /\ apply_offered
    /\ Cardinality(asked) = 2
    /\ \A k \in asked :
        /\ ~HasDirector(PeopleSeen(k))
        /\ selected_people[k] = PeopleSeen(k)[1]

\* C16 (as claimed): no log entry of one run of a session (an event for an
\* account) is produced again by the next run of the same session.
C16_NoLogEntryTwice ==
    [][SameSessionStep =>
        \A i \in 1..Len(logs) : \A j \in 1..Len(logs') : logs[i] # logs'[j]]_vars

\* The positions of the Account.update calls of the last run for account a.
UpdateCalls(a) == {i \in 1..Len(updates) : updates[i].id = a}

\* C17: in an apply pass an account with an empty payload is logged as "no
\* matching data" and no Account.update call is made for it; an account with
\* a non-empty payload gets exactly one call, carrying that payload, and no
\* "no matching data" entry; and calls are made for no other account.
C17_WriteIffPayload ==
    performed =>
        /\ \A a \in DOMAIN payloads :
                IF DOMAIN payloads[a] = {}
                THEN /\ UpdateCalls(a) = {}
                     /\ a \in Range(LogIds({"no_match"}))
                     /\ a \notin Range(LogIds({"updated", "update_failed"}))
                ELSE /\ Cardinality(UpdateCalls(a)) = 1
                     /\ \A i \in UpdateCalls(a) : updates[i].payload = payloads[a]
                     /\ a \notin Range(LogIds({"no_match"}))
        /\ \A i \in 1..Len(updates) : updates[i].id \in DOMAIN payloads

\* C17 witness: one apply pass logged "no matching data" for an account
\* with an empty payload and called Account.update for the other account.
C17_Witness ==
    /\ performed
    /\ \E a, b \in DOMAIN payloads :
        /\ DOMAIN payloads[a] = {}
        /\ a \in Range(LogIds({"no_match"}))
        /\ DOMAIN payloads[b] # {}
        /\ UpdateCalls(b) # {}

\* C18: in the end-to-end scenario, "Identify accounts with missing data"
\* on the CRM with the blank phone number lists exactly account 001A with
\* its name, VAT number FI123 and the missing field Phone; and an apply
\* pass of a session whose fetch returned the document issues exactly one
\* Account.update, for 001A, with the payload
\* {Phone: "+358401234567"} and, when the CRM accepts it, the only log entry
\* is the "Updated" entry of 001A and the number is in the CRM.
C18_EndToEnd ==
    [][/\ (Identify /\ IsBlank(crm["001A"].Phone)) =>
            accounts_with_missing_data' =
                <<[Id |-> "001A", Name |-> Str("Acme"), VatNumber__c |-> Str("FI123"),
                   Missing |-> {"Phone"}]>>
       /\ (performed' /\ "001A" \in DOMAIN seen') =>
            /\ seen'["001A"].data = DocPhoneOnly
            /\ Len(updates') = 1
            /\ updates'[1].id = "001A"
            /\ updates'[1].payload = [Phone |-> Str("+358401234567")]
            /\ updates'[1].ok =>
                    /\ logs' = <<[event |-> "updated", id |-> "001A"]>>
                    /\ crm'["001A"].Phone = Str("+358401234567")
                    /\ crm'["001A"].Name = Str("Acme")]_vars

\* C18 witness: start, then apply: the one update of 001A was accepted.
C18_Witness ==
    /\ performed
    /\ sessions = 1
    /\ updates = <<[id |-> "001A", payload |-> [Phone |-> Str("+358401234567")],
                    ok |-> TRUE]>>
    /\ logs = <<[event |-> "updated", id |-> "001A"]>>

\* Paths that are not catalog paths: no dot, an unknown category, a rest
\* without the prefix its category requires.
MalformedPaths ==
    {<<"name">>, <<"unknown", "name">>, <<"financials", "turnover">>,
     <<"financials", "first", "turnover">>, <<"offices", "name">>,
     <<"eAddresses", "id">>, <<"people", "title">>}

\* The paths tried on the documents of a session: the malformed ones and one
\* catalog path of each category.
TriedPaths ==
    MalformedPaths \cup
    {<<"basic", "name">>, <<"financials", "latest", "turnover">>,
     <<"offices", "first", "name">>, <<"eAddresses", "first", "id">>,
     <<"people", "count">>}

\* The rest of the path lacks the prefix its category requires.
PrefixMismatch(path) ==
    LET rest == Tail(path)
    IN  CASE path[1] = "financials" -> ~StartsWith(rest, "latest")
          [] path[1] \in {"offices", "eAddresses"} -> ~StartsWith(rest, "first")
          [] path[1] = "people" -> rest # <<"count">> /\ ~StartsWith(rest, "ceo")
          [] OTHER -> FALSE

\* The document has no data of the category of the path, or empty data.
CategoryDataMissing(data, path) ==
    /\ path[1] \in Categories
    /\ \/ path[1] \notin DOMAIN data
       \/ DOMAIN data[path[1]] = {}

\* A resolution anomaly as the claim lists them.
Anomaly(data, path) ==
    \/ ~HasDot(path)
    \/ path[1] \notin Categories
    \/ PrefixMismatch(path)
    \/ CategoryDataMissing(data, path)

\* The same without the one case the resolver answers with a number: the
\* path people.count over an absent or empty people list.
AnomalyButCount(data, path) ==
    /\ Anomaly(data, path)
    /\ path # <<"people", "count">>

\* field_mappings with the entry of field g set to path p.
Remapped(g, p) ==
    [f \in DOMAIN field_mappings \cup {g} |-> IF f = g THEN p ELSE field_mappings[f]]

\* With field g mapped to path p, the payload of account a has no key g and
\* holds every other field exactly as it does without that entry.
OnlyThatFieldSkipped(a, g, p) ==
    LET with == BuildPayload(a, seen[a].data, Remapped(g, p), selected_fields, chosen)
        others == [f \in DOMAIN field_mappings \ {g} |-> field_mappings[f]]
        without == BuildPayload(a, seen[a].data, others, selected_fields, chosen)
    IN  /\ g \notin DOMAIN with
        /\ with = without

\* C21 (as claimed): on the document of every fetched account, a mapped
\* selected field whose path has no dot, an unknown category, a rest without
\* the required prefix, or a category whose data is absent or empty in the
\* document, gets no value: the payload has no key for it and holds every
\* other eligible field as without it; and an apply pass leaves such a field
\* out of the payload it writes.
C21_AnomalyYieldsNoValue ==
    /\ \A a \in DOMAIN seen : \A g \in selected_fields : \A p \in TriedPaths :
            (FetchOk(seen[a].data) /\ Anomaly(seen[a].data, p)) =>
                OnlyThatFieldSkipped(a, g, p)
    /\ \A a \in DOMAIN payloads :
            \A f \in DOMAIN field_mappings \cap selected_fields :
                Anomaly(seen[a].data, field_mappings[f]) => f \notin DOMAIN payloads[a]

\* C21 (amended): the same for every anomaly except people.count over an
\* absent or empty people list, which resolves to the number 0 and is placed
\* in the payload; the payload an apply pass writes is exactly the one built
\* from the fields without such an anomaly.
C21_AnomalyYieldsNoValueButCount ==
    /\ \A a \in DOMAIN seen : \A g \in selected_fields : \A p \in TriedPaths :
            (FetchOk(seen[a].data) /\ AnomalyButCount(seen[a].data, p)) =>
                OnlyThatFieldSkipped(a, g, p)
    /\ \A a \in DOMAIN payloads :
            \A f \in DOMAIN field_mappings \cap selected_fields :
                /\ AnomalyButCount(seen[a].data, field_mappings[f]) =>
                        f \notin DOMAIN payloads[a]
                /\ field_mappings[f] = <<"people", "count">> => f \in DOMAIN payloads[a]

\* C21 witness: an apply pass over a document with empty financials left
\* AnnualRevenue out and wrote NumberOfEmployees.
C21_Witness ==
    /\ performed
    /\ selected_fields = {"NumberOfEmployees", "AnnualRevenue"}
    /\ \E a \in DOMAIN payloads :
        /\ seen[a].data = DocNoFinancials
        /\ DOMAIN payloads[a] = {"NumberOfEmployees"}
        /\ \E i \in 1..Len(updates) :
                updates[i].id = a /\ DOMAIN updates[i].payload = {"NumberOfEmployees"}

StuckRecord ==
    /\ enrichment_in_progress
    /\ CeoFields(field_mappings, selected_fields) # {}
    /\ \E a \in Range(selected_accounts) \cap DOMAIN person_selection_state :
        /\ Truthy(crm[a].VatNumber__c)
        /\ person_selection_state[a].people_data = <<>>

\* C23 (as claimed): once an account of the session was fetched with an
\* empty people list while a selected field is mapped to people.ceo.*, no
\* run offers "Apply Enrichment" as long as the enrichment is in progress:
\* only "Back" leaves.
C23_EmptyPeopleOnlyCancel ==
    [][(StuckRecord /\ enrichment_in_progress') =>
            (~apply_offered' /\ ~performed')]_vars

\* C23 (amended): the same as long as the field selection and the field
\* mapping stay as they are; the record then stays without selection, so the
\* button is offered by no later run either.
C23_EmptyPeopleBlocksApply ==
    [][/\ StuckRecord => ~apply_offered
       /\ (/\ StuckRecord
           /\ enrichment_in_progress'
           /\ selected_fields' = selected_fields
           /\ field_mappings' = field_mappings) =>
                (StuckRecord' /\ ~apply_offered' /\ ~performed')]_vars

\* C23 witness: a session of two accounts, one with a person selected and
\* one fetched with an empty people list, after a further run.
C23_Witness ==
    /\ StuckRecord
    /\ last_event = "other"
    /\ Len(selected_accounts) = 2
    /\ DOMAIN person_selection_state = Range(selected_accounts)
    /\ DOMAIN selected_people # {}
    /\ show_apply_button
    /\ ~apply_offered

\* Every entry of the mapping is a path category.key of the catalog.
MappingWellFormed(mappings) ==
    \A f \in DOMAIN mappings :
        /\ mappings[f] # <<>>
        /\ HasDot(mappings[f])
        /\ mappings[f][1] \in Categories
        /\ Tail(mappings[f]) \in Catalog[mappings[f][1]]

\* The entries of the fields other than f are the same before and after.
OthersKept(f) ==
    /\ DOMAIN field_mappings' \ {f} = DOMAIN field_mappings \ {f}
    /\ \A g \in DOMAIN field_mappings \ {f} : field_mappings'[g] = field_mappings[g]

\* The paths the "Field" box of field f offers.
OfferedPaths(f) ==
    IF category_select[f] = "" THEN {} ELSE FieldOptions(category_select[f])

\* C24: the default mapping and the mapping after every choice in a mapping
\* row hold only catalog paths category.key, one entry per field at most;
\* the blank option of a "Field" box removes the entry of its field, a path
\* chosen there becomes the entry of its field, the blank option of a
\* "Category" box leaves the mapping as it is, and no choice touches the
\* entry of another field.
C24_MappingStaysInCatalog ==
    /\ MappingWellFormed(field_mappings)
    /\ [][/\ MappingWellFormed(field_mappings')
          /\ \A f \in selected_fields :
                /\ MapPath(f, <<>>) => (f \notin DOMAIN field_mappings' /\ OthersKept(f))
                /\ MapCategory(f, "") => field_mappings' = field_mappings
                /\ \A path \in OfferedPaths(f) :
                        MapPath(f, path) =>
                            (/\ f \in DOMAIN field_mappings'
                             /\ field_mappings'[f] = path
                             /\ OthersKept(f))
                /\ \A c \in Categories : MapCategory(f, c) => OthersKept(f)]_vars

\* C24 witness: after two choices the entry of Phone is removed (blank
\* path under its category) and the entry of Name is the default one under a
\* blank category.
C24_Witness ==
    /\ edits = 2
    /\ selected_fields = {"Name", "Phone", "Yhteyshenkilo__c"}
    /\ DOMAIN field_mappings = DOMAIN default_mappings \ {"Phone"}
    /\ category_select["Phone"] = "basic"
    /\ category_select["Name"] = ""
    /\ field_mappings["Name"] = default_mappings["Name"]

====
